---- MODULE Spec2Model ----
(***************************************************************************)
(* Model of divan's EntryTree (src/entry/tree.rs): a forest of Leaf and    *)
(* Parent nodes built from benchmark entries, then mutated in place by     *)
(* insert_group, retain and sort_by_attr.                                  *)
(*                                                                         *)
(* Strings are sequences of one-character strings so that strip_prefix,    *)
(* format!("{parent_path}::{}") and str::cmp are computed, not assumed.    *)
(* Option<T> is a sequence of length 0 (None) or 1 (Some).                 *)
(***************************************************************************)
EXTENDS FiniteSets, Integers, Sequences, TLC

\* entries   the iterator from_entries is about to be given
\* tree      the forest
\* prev      the forest before the last call
\* last      the last call and its arguments
\* calls     the paths the filter was called with during the last retain
\* resorted  the last two calls were sort_by_attr with the same arguments
\* pc        "start" before from_entries has returned, "built" after
VARIABLES entries, tree, prev, last, calls, resorted, pc

vars == <<entries, tree, prev, last, calls, resorted, pc>>

(***************************************************************************)
(* Bounds                                                                  *)
(***************************************************************************)
MaxEntries == 3

MaxAnyChildren == 2

(***************************************************************************)
(* std::cmp::Ordering                                                      *)
(***************************************************************************)
Less == -1

Equal == 0

Greater == 1

reverse_ordering(o) == 0 - o

cmp_int(a, b) == IF a < b THEN Less ELSE IF a > b THEN Greater ELSE Equal

(***************************************************************************)
(* Strings                                                                 *)
(***************************************************************************)
Byte ==
  [c \in {"#", ":", "a", "b", "g", "r", "x", "y", "z"} |->
     CASE c = "#" -> 35 [] c = ":" -> 58 [] c = "a" -> 97 [] c = "b" -> 98
       [] c = "g" -> 103 [] c = "r" -> 114 [] c = "x" -> 120
       [] c = "y" -> 121 [] c = "z" -> 122]

RECURSIVE cmp_str(_, _)
cmp_str(s, t) ==
  IF s = <<>> /\ t = <<>> THEN Equal
  ELSE IF s = <<>> THEN Less
  ELSE IF t = <<>> THEN Greater
  ELSE IF Byte[Head(s)] # Byte[Head(t)] THEN cmp_int(Byte[Head(s)], Byte[Head(t)])
  ELSE cmp_str(Tail(s), Tail(t))

starts_with(s, p) == Len(s) >= Len(p) /\ SubSeq(s, 1, Len(p)) = p

\* raw_name.strip_prefix("r#").unwrap_or(raw_name)
strip_raw_prefix(s) ==
  IF starts_with(s, <<"r", "#">>) THEN SubSeq(s, 3, Len(s)) ELSE s

\* format!("{parent_path}::{}", name)
format_path(parent_path, name) == parent_path \o <<":", ":">> \o name

contains(s, needle) ==
  \E i \in 1..(Len(s) + 1) :
    i + Len(needle) - 1 <= Len(s) /\ SubSeq(s, i, i + Len(needle) - 1) = needle

(***************************************************************************)
(* Entries and groups the forest refers to                                 *)
(***************************************************************************)
mkEntry(i, n, p, l) == [id |-> i, display_name |-> n, path |-> p, loc |-> l]

mkGroup(r, p, n, l) == [raw_name |-> r, path |-> p, display_name |-> n, loc |-> l]

EntryPool ==
  { mkEntry(1, <<"x">>, <<>>, 1),
    mkEntry(2, <<"y">>, <<<<"a">>>>, 2),
    mkEntry(3, <<"x">>, <<<<"a">>, <<"r", "#", "b">>>>, 1),
    mkEntry(4, <<"z">>, <<<<"a">>, <<"b">>>>, 1),
    mkEntry(5, <<"y">>, <<<<"a">>>>, 2) }

GroupPool ==
  { mkGroup(<<"a">>, <<>>, <<>>, 3),
    mkGroup(<<"a">>, <<>>, <<"g">>, 1),
    mkGroup(<<"r", "#", "b">>, <<<<"a">>>>, <<"g">>, 2),
    mkGroup(<<"x">>, <<>>, <<"g">>, 1),
    mkGroup(<<"a">>, <<<<"a">>>>, <<"g">>, 1),
    mkGroup(<<"b">>, <<<<"z">>>>, <<"g">>, 1) }

module_path_components(e) == e.path

entry_location(e) == e.loc

group_location(g) == g.loc

\* The filters handed to retain: a predicate over the full display path.
FilterPool ==
  { [kind |-> "all"], [kind |-> "nothing"],
    [kind |-> "contains", needle |-> <<"x">>],
    [kind |-> "contains", needle |-> <<":", ":">>],
    [kind |-> "contains", needle |-> <<"b", ":", ":">>] }

apply_filter(f, path) ==
  CASE f.kind = "all" -> TRUE
    [] f.kind = "nothing" -> FALSE
    [] f.kind = "contains" -> contains(path, f.needle)

SortingAttr == {"Kind", "Name", "Location"}

with_tie_breakers(attr) ==
  CASE attr = "Kind" -> <<"Kind", "Name", "Location">>
    [] attr = "Name" -> <<"Name", "Kind", "Location">>
    [] attr = "Location" -> <<"Location", "Kind", "Name">>

(***************************************************************************)
(* enum EntryTree                                                          *)
(***************************************************************************)
None == <<>>

Some(v) == <<v>>

Leaf(e) == [tag |-> "Leaf", entry |-> e]

Parent(r, g, c) == [tag |-> "Parent", raw_name |-> r, group |-> g, children |-> c]

IsLeaf(n) == n.tag = "Leaf"

IsParent(n) == n.tag = "Parent"

kind(n) == IF IsLeaf(n) THEN 0 ELSE 1

children(n) == IF IsLeaf(n) THEN <<>> ELSE n.children

display_name(n) ==
  IF IsLeaf(n) THEN n.entry.display_name
  ELSE IF n.group # None THEN n.group[1].display_name
  ELSE strip_raw_prefix(n.raw_name)

\* get_children that never finds the module.
get_children_none(level, module) == 0

\* Index of the first Parent named `module` in `level`, 0 for None.
get_children(level, module) ==
  IF \E i \in 1..Len(level) : IsParent(level[i]) /\ level[i].raw_name = module
  THEN CHOOSE i \in 1..Len(level) :
         /\ IsParent(level[i]) /\ level[i].raw_name = module
         /\ \A j \in 1..(i - 1) : ~(IsParent(level[j]) /\ level[j].raw_name = module)
  ELSE 0

\* from_path that drops the remaining modules.
from_path_flat(entry, current_module, rem_modules) ==
  Parent(current_module, None, <<Leaf(entry)>>)

RECURSIVE from_path(_, _, _)
from_path(entry, current_module, rem_modules) ==
  LET child == IF rem_modules # <<>>
               THEN from_path(entry, Head(rem_modules), Tail(rem_modules))
               ELSE Leaf(entry)
  IN Parent(current_module, None, <<child>>)

RECURSIVE insert_entry(_, _, _)
insert_entry(level, entry, rem_modules) ==
  IF rem_modules # <<>>
  THEN LET current_module == Head(rem_modules)
           idx == get_children(level, current_module)
       IN IF idx # 0
          THEN [level EXCEPT ![idx].children =
                  insert_entry(@, entry, Tail(rem_modules))]
          ELSE Append(level, from_path(entry, current_module, Tail(rem_modules)))
  ELSE Append(level, Leaf(entry))

RECURSIVE from_entries_loop(_, _)
from_entries_loop(result, es) ==
  IF es = <<>> THEN result
  ELSE from_entries_loop(
         insert_entry(result, Head(es), module_path_components(Head(es))),
         Tail(es))

from_entries(es) == from_entries_loop(<<>>, es)

(***************************************************************************)
(* insert_group                                                            *)
(***************************************************************************)
\* `for subtree in tree { match subtree { Parent { raw_name, .. } if name ==
\* *raw_name => .. } }`: index of the first Parent with that raw name, 0 if the
\* loop falls through.
first_parent_named(level, name) ==
  IF \E i \in 1..Len(level) : IsParent(level[i]) /\ level[i].raw_name = name
  THEN CHOOSE i \in 1..Len(level) :
         /\ IsParent(level[i]) /\ level[i].raw_name = name
         /\ \A j \in 1..(i - 1) : ~(IsParent(level[j]) /\ level[j].raw_name = name)
  ELSE 0

\* insert_group's final loop without the raw-name guard.
insert_group_slot_any(level, group) ==
  IF \E i \in 1..Len(level) : IsParent(level[i])
  THEN LET idx == CHOOSE i \in 1..Len(level) :
                    IsParent(level[i]) /\ \A j \in 1..(i - 1) : IsLeaf(level[j])
       IN [level EXCEPT ![idx].group = Some(group)]
  ELSE level

\* insert_group's final loop that fills only an empty slot.
insert_group_slot_keep(level, group) ==
  LET idx == first_parent_named(level, group.raw_name)
  IN IF idx # 0 /\ level[idx].group = None
     THEN [level EXCEPT ![idx].group = Some(group)]
     ELSE level

\* The final loop of insert_group: bind the first Parent named group.raw_name.
insert_group_slot(level, group) ==
  LET idx == first_parent_named(level, group.raw_name)
  IN IF idx # 0 THEN [level EXCEPT ![idx].group = Some(group)] ELSE level

\* The 'component loop: `level` is narrowed to the children of the first
\* Parent named after each module path component; no match returns.
RECURSIVE insert_group_walk(_, _, _)
insert_group_walk(level, components, group) ==
  IF components # <<>>
  THEN LET idx == first_parent_named(level, Head(components))
       IN IF idx # 0
          THEN [level EXCEPT ![idx].children =
                  insert_group_walk(@, Tail(components), group)]
          ELSE level
  ELSE insert_group_slot(level, group)

insert_group(forest, group) ==
  insert_group_walk(forest, module_path_components(group), group)

(***************************************************************************)
(* retain                                                                  *)
(***************************************************************************)
full_path_of(parent_path, n) ==
  IF parent_path = <<>> THEN display_name(n)
  ELSE format_path(parent_path, display_name(n))

\* retain that keeps every Parent.
keep_parent_always(kept_children) == TRUE

\* retain with the emptiness test inverted.
keep_parent_negated(kept_children) == kept_children = <<>>

\* A Parent is kept iff its children are not empty after the inner retain.
keep_parent(kept_children) == kept_children # <<>>

\* Result: the retained level and the paths the filter was called with, in
\* call order.
RECURSIVE retain_inner(_, _, _)
retain_inner(level, parent_path, filter) ==
  IF level = <<>> THEN [tree |-> <<>>, calls |-> <<>>]
  ELSE LET subtree == Head(level)
           full_path == full_path_of(parent_path, subtree)
           inner == IF IsLeaf(subtree)
                    THEN [tree |-> <<>>, calls |-> <<full_path>>]
                    ELSE retain_inner(subtree.children, full_path, filter)
           keep == IF IsLeaf(subtree) THEN apply_filter(filter, full_path)
                   ELSE keep_parent(inner.tree)
           node == IF IsLeaf(subtree) THEN subtree
                   ELSE [subtree EXCEPT !.children = inner.tree]
           rest == retain_inner(Tail(level), parent_path, filter)
       IN [tree |-> (IF keep THEN <<node>> ELSE <<>>) \o rest.tree,
           calls |-> inner.calls \o rest.calls]

retain(forest, filter) == retain_inner(forest, <<>>, filter)

(***************************************************************************)
(* sort_by_attr                                                            *)
(***************************************************************************)
\* Iterator::max in place of Iterator::min.
max_option(locs) ==
  IF locs = <<>> THEN None
  ELSE Some(CHOOSE m \in {locs[i] : i \in 1..Len(locs)} :
              \A i \in 1..Len(locs) : m >= locs[i])

min_option(locs) ==
  IF locs = <<>> THEN None
  ELSE Some(CHOOSE m \in {locs[i] : i \in 1..Len(locs)} :
              \A i \in 1..Len(locs) : m <= locs[i])

\* Option<EntryLocation>::cmp: None orders before every Some.
cmp_option(a, b) ==
  IF a = None /\ b = None THEN Equal
  ELSE IF a = None THEN Less
  ELSE IF b = None THEN Greater
  ELSE cmp_int(a[1], b[1])

RECURSIVE location(_), flat_map_location(_)
location(n) ==
  IF IsLeaf(n) THEN Some(entry_location(n.entry))
  ELSE IF n.group # None THEN Some(group_location(n.group[1]))
  ELSE min_option(flat_map_location(n.children))

flat_map_location(level) ==
  IF level = <<>> THEN <<>>
  ELSE location(Head(level)) \o flat_map_location(Tail(level))

cmp_one_attr(a, b, attr) ==
  CASE attr = "Kind" -> cmp_int(kind(a), kind(b))
    [] attr = "Name" -> cmp_str(display_name(a), display_name(b))
    [] attr = "Location" -> cmp_option(location(a), location(b))

\* cmp_by_attr's loop cut after the primary attribute.
cmp_chain_primary(a, b, attrs) ==
  IF attrs = <<>> THEN Equal ELSE cmp_one_attr(a, b, Head(attrs))

RECURSIVE cmp_chain(_, _, _)
cmp_chain(a, b, attrs) ==
  IF attrs = <<>> THEN Equal
  ELSE LET ordering == cmp_one_attr(a, b, Head(attrs))
       IN IF ordering # Equal THEN ordering ELSE cmp_chain(a, b, Tail(attrs))

cmp_by_attr(a, b, attr) == cmp_chain(a, b, with_tie_breakers(attr))

\* The closure handed to sort_unstable_by.
sort_cmp(a, b, attr, reverse) ==
  IF reverse THEN reverse_ordering(cmp_by_attr(a, b, attr))
  ELSE cmp_by_attr(a, b, attr)

\* slice::sort_unstable_by: any arrangement of the elements that is ordered
\* by the comparator; elements that compare Equal may land in any order.
sort_unstable_by(level, attr, reverse) ==
  { p \in { [i \in 1..Len(level) |-> level[f[i]]] : f \in Permutations(1..Len(level)) } :
      \A i \in 1..(Len(p) - 1) : sort_cmp(p[i], p[i + 1], attr, reverse) <= Equal }

\* The set of forests a call can leave behind.
RECURSIVE sort_by_attr(_, _, _), sort_children(_, _, _)
sort_by_attr(level, attr, reverse) ==
  UNION { sort_children(p, attr, reverse) : p \in sort_unstable_by(level, attr, reverse) }

\* sort_by_attr without the descent into the children.
sort_children_skip(level, attr, reverse) == {level}

\* tree.iter_mut().for_each(|tree| sort_by_attr(tree.children_mut(), ..))
sort_children(level, attr, reverse) ==
  IF level = <<>> THEN {<<>>}
  ELSE LET heads == IF IsLeaf(Head(level)) THEN {Head(level)}
                    ELSE { [Head(level) EXCEPT !.children = c] :
                             c \in sort_by_attr(Head(level).children, attr, reverse) }
       IN { <<h>> \o t : h \in heads, t \in sort_children(Tail(level), attr, reverse) }

(***************************************************************************)
(* State machine                                                           *)
(***************************************************************************)
RECURSIVE SeqsUpTo(_, _)
SeqsUpTo(S, n) ==
  IF n = 0 THEN {<<>>}
  ELSE LET shorter == SeqsUpTo(S, n - 1)
       IN shorter \cup {Append(s, x) : s \in shorter, x \in S}

NoOp == [op |-> "none"]

Init ==
  /\ entries \in SeqsUpTo(EntryPool, MaxEntries)
  /\ tree = <<>>
  /\ prev = <<>>
  /\ last = NoOp
  /\ calls = <<>>
  /\ resorted = FALSE
  /\ pc = "start"

\* from_entries consumes the iterator it is given.
FromEntries ==
  /\ pc = "start"
  /\ tree' = from_entries(entries)
  /\ prev' = tree
  /\ last' = [op |-> "from_entries", entries |-> entries]
  /\ entries' = <<>>
  /\ calls' = <<>>
  /\ resorted' = FALSE
  /\ pc' = "built"

InsertGroup ==
  /\ pc = "built"
  /\ \E g \in GroupPool :
       /\ tree' = insert_group(tree, g)
       /\ last' = [op |-> "insert_group", group |-> g]
  /\ prev' = tree
  /\ calls' = <<>>
  /\ resorted' = FALSE
  /\ UNCHANGED <<entries, pc>>

Retain ==
  /\ pc = "built"
  /\ \E f \in FilterPool :
       LET r == retain(tree, f)
       IN /\ tree' = r.tree
          /\ calls' = r.calls
          /\ last' = [op |-> "retain", filter |-> f]
  /\ prev' = tree
  /\ resorted' = FALSE
  /\ UNCHANGED <<entries, pc>>

SortByAttr ==
  /\ pc = "built"
  /\ \E attr \in SortingAttr, reverse \in BOOLEAN :
       /\ tree' \in sort_by_attr(tree, attr, reverse)
       /\ last' = [op |-> "sort_by_attr", attr |-> attr, reverse |-> reverse]
       /\ resorted' = (last = [op |-> "sort_by_attr", attr |-> attr, reverse |-> reverse])
  /\ prev' = tree
  /\ calls' = <<>>
  /\ UNCHANGED <<entries, pc>>

(***************************************************************************)
(* cmp_by_attr and location over EntryTree values at large: the enum also  *)
(* admits a Parent whose children are empty, whose location is None.       *)
(***************************************************************************)
AnyLeaves == { Leaf(e) : e \in { x \in EntryPool : x.id <= 2 } }

AnyGroupSlots == {None} \cup { Some(g) : g \in { x \in GroupPool : x.loc = 3 } }

AnyInner ==
  AnyLeaves \cup { Parent(<<"b">>, og, cs) :
                     og \in AnyGroupSlots,
                     cs \in SeqsUpTo({ Leaf(e) : e \in { x \in EntryPool : x.id = 1 } },
                                     MaxAnyChildren) }

AnyOuter ==
  AnyLeaves \cup { Parent(<<"a">>, None, cs) : cs \in SeqsUpTo(AnyInner, MaxAnyChildren) }

AnyLast == { Leaf(e) : e \in { x \in EntryPool : x.id = 1 } } \cup {Parent(<<"b">>, None, <<>>)}

InitAny ==
  /\ tree \in { <<p, q>> : p \in AnyOuter, q \in AnyLast }
  /\ entries = <<>>
  /\ prev = <<>>
  /\ last = NoOp
  /\ calls = <<>>
  /\ resorted = FALSE
  /\ pc = "built"

NextAny == SortByAttr

SpecAny == InitAny /\ [][NextAny]_vars

Next == FromEntries \/ InsertGroup \/ Retain \/ SortByAttr

Spec == Init /\ [][Next]_vars

(***************************************************************************)
(* Vocabulary of the properties: nodes are addressed by the sequence of    *)
(* sibling indices leading to them from the root.                          *)
(***************************************************************************)
RECURSIVE Addrs(_)
Addrs(level) ==
  UNION { {<<i>>} \cup { <<i>> \o a : a \in Addrs(children(level[i])) } :
            i \in 1..Len(level) }

RECURSIVE NodeAt(_, _)
NodeAt(level, addr) ==
  IF Len(addr) = 1 THEN level[addr[1]]
  ELSE NodeAt(children(level[addr[1]]), Tail(addr))

LeafAddrs(forest) == { a \in Addrs(forest) : IsLeaf(NodeAt(forest, a)) }

ParentAddrs(forest) == { a \in Addrs(forest) : IsParent(NodeAt(forest, a)) }

\* The sibling levels of a forest: the root and every Parent's children.
Levels(forest) ==
  {forest} \cup { NodeAt(forest, a).children : a \in ParentAddrs(forest) }

\* The nodes strictly above addr, outermost first.
AncestorsOf(forest, addr) ==
  [k \in 1..(Len(addr) - 1) |-> NodeAt(forest, SubSeq(addr, 1, k))]

\* Raw names of the Parents along addr, the node at addr included.
RawChain(forest, addr) ==
  [k \in 1..Len(addr) |-> NodeAt(forest, SubSeq(addr, 1, k)).raw_name]

AllParentsAlong(forest, addr) ==
  \A k \in 1..Len(addr) : IsParent(NodeAt(forest, SubSeq(addr, 1, k)))

Occurrences(seq, x) == Cardinality({ i \in 1..Len(seq) : seq[i] = x })

\* A node without its subtree.
Shallow(n) ==
  IF IsLeaf(n) THEN n
  ELSE [tag |-> "Parent", raw_name |-> n.raw_name, group |-> n.group,
        width |-> Len(n.children)]

(***************************************************************************)
(* C1: the forest returned by from_entries holds every input entry exactly *)
(* once as a Leaf, below Parents whose raw names are the entry's path      *)
(* components in order, and holds no other Leaf.                           *)
(***************************************************************************)
C1_FromEntries ==
  last.op = "from_entries" =>
    /\ \A a \in LeafAddrs(tree) :
         /\ \A k \in 1..(Len(a) - 1) : IsParent(AncestorsOf(tree, a)[k])
         /\ [k \in 1..(Len(a) - 1) |-> AncestorsOf(tree, a)[k].raw_name]
              = module_path_components(NodeAt(tree, a).entry)
    /\ \A e \in EntryPool :
         Cardinality({ a \in LeafAddrs(tree) : NodeAt(tree, a).entry = e })
           = Occurrences(last.entries, e)
    /\ Cardinality(LeafAddrs(tree)) = Len(last.entries)

C1_Witness ==
  /\ last.op = "from_entries"
  /\ Len(last.entries) = 3
  /\ \E i \in 1..3 : last.entries[i].path = <<>>
  /\ \E i, j \in 1..3 :
       /\ last.entries[i] # last.entries[j]
       /\ last.entries[j].path # <<>>
       /\ starts_with(last.entries[i].path, last.entries[j].path)
  /\ \E a \in LeafAddrs(tree) : Len(a) >= 2

(***************************************************************************)
(* C2: no Parent node of a reachable forest has zero children.             *)
(***************************************************************************)
C2_NoEmptyParent ==
  \A a \in ParentAddrs(tree) : NodeAt(tree, a).children # <<>>

C2_Witness ==
  /\ last.op = "retain"
  /\ ParentAddrs(tree) # {}
  /\ Cardinality(ParentAddrs(tree)) < Cardinality(ParentAddrs(prev))
  /\ Cardinality(LeafAddrs(tree)) < Cardinality(LeafAddrs(prev))

(***************************************************************************)
(* C7: at every level of a reachable forest no two Parent siblings have    *)
(* the same raw name.                                                      *)
(***************************************************************************)
C7_SiblingsDisjoint ==
  \A level \in Levels(tree) :
    \A i, j \in 1..Len(level) :
      (i # j /\ IsParent(level[i]) /\ IsParent(level[j]))
        => level[i].raw_name # level[j].raw_name

C7_Witness ==
  /\ last.op = "sort_by_attr"
  /\ \E a \in ParentAddrs(tree) : Len(NodeAt(tree, a).children) >= 2
  /\ \E level \in Levels(tree) :
       \E i, j \in 1..Len(level) : i # j /\ IsParent(level[i]) /\ IsParent(level[j])

(***************************************************************************)
(* insert_group: whether a chain of Parents is named by the group's module *)
(* path followed by its raw name.                                          *)
(***************************************************************************)
GroupChain(g) == module_path_components(g) \o <<g.raw_name>>

GroupTargets(forest, g) ==
  { a \in Addrs(forest) :
      AllParentsAlong(forest, a) /\ RawChain(forest, a) = GroupChain(g) }

ModulePathMatches(forest, g) ==
  \E a \in Addrs(forest) :
    AllParentsAlong(forest, a) /\ RawChain(forest, a) = module_path_components(g)

(***************************************************************************)
(* C3: insert_group with a group that matches no chain of Parent raw names *)
(* leaves the forest as it was.                                            *)
(***************************************************************************)
C3_UnmatchedGroupNoChange ==
  (last.op = "insert_group" /\ GroupTargets(prev, last.group) = {})
    => tree = prev

C3_Witness ==
  /\ last.op = "insert_group"
  /\ GroupTargets(prev, last.group) = {}
  /\ module_path_components(last.group) # <<>>
  /\ ModulePathMatches(prev, last.group)
  /\ tree = prev

(***************************************************************************)
(* C4: insert_group with a group that matches a chain of Parents binds the *)
(* group to that one Parent, overwriting an earlier binding; the Parent    *)
(* then shows the group's display name and location, and nothing else in   *)
(* the forest changes.                                                     *)
(***************************************************************************)
C4_MatchedGroupBound ==
  (last.op = "insert_group" /\ GroupTargets(prev, last.group) # {})
    => \E t \in GroupTargets(prev, last.group) :
         /\ GroupTargets(prev, last.group) = {t}
         /\ Addrs(tree) = Addrs(prev)
         /\ \A a \in Addrs(prev) :
              Shallow(NodeAt(tree, a)) =
                IF a = t
                THEN [Shallow(NodeAt(prev, a)) EXCEPT !.group = Some(last.group)]
                ELSE Shallow(NodeAt(prev, a))
         /\ display_name(NodeAt(tree, t)) = last.group.display_name
         /\ location(NodeAt(tree, t)) = Some(group_location(last.group))

C4_Witness ==
  /\ last.op = "insert_group"
  /\ Cardinality(ParentAddrs(prev)) >= 2
  /\ \E t \in GroupTargets(prev, last.group) :
       /\ NodeAt(prev, t).group # None
       /\ NodeAt(prev, t).group # Some(last.group)
       /\ NodeAt(tree, t).group = Some(last.group)

(***************************************************************************)
(* C5: retain with a filter that accepts every path leaves the forest as   *)
(* it was, and retain with a filter that rejects every path empties it.    *)
(***************************************************************************)
C5_RetainAllOrNothing ==
  /\ (last.op = "retain" /\ last.filter.kind = "all") => tree = prev
  /\ (last.op = "retain" /\ last.filter.kind = "nothing") => tree = <<>>

C5_Witness ==
  /\ last.op = "retain"
  /\ last.filter.kind = "all"
  /\ \E a \in ParentAddrs(prev) : Len(a) = 2
  /\ \E a \in ParentAddrs(prev) : NodeAt(prev, a).group # None
  /\ tree = prev

(***************************************************************************)
(* retain: the full path of a node as the display names of the nodes from  *)
(* the root down to it, joined with "::".                                  *)
(***************************************************************************)
RECURSIVE Join(_)
Join(names) ==
  IF names = <<>> THEN <<>>
  ELSE IF Len(names) = 1 THEN names[1]
  ELSE names[1] \o <<":", ":">> \o Join(Tail(names))

DisplayChain(forest, addr) ==
  [k \in 1..Len(addr) |-> display_name(NodeAt(forest, SubSeq(addr, 1, k)))]

JoinedPath(forest, addr) == Join(DisplayChain(forest, addr))

\* The nodes of `level` (found at address `prefix`) whose address is in
\* `kept`, in their original order, restricted likewise below.
RECURSIVE Restrict(_, _, _, _)
Restrict(level, i, prefix, kept) ==
  IF i > Len(level) THEN <<>>
  ELSE LET addr == Append(prefix, i)
           node == IF IsLeaf(level[i]) THEN level[i]
                   ELSE [level[i] EXCEPT !.children = Restrict(@, 1, addr, kept)]
       IN (IF addr \in kept THEN <<node>> ELSE <<>>)
            \o Restrict(level, i + 1, prefix, kept)

SurvivingLeaves(forest, f) ==
  { a \in LeafAddrs(forest) : apply_filter(f, JoinedPath(forest, a)) }

WithAncestors(addrs) ==
  UNION { { SubSeq(a, 1, k) : k \in 1..Len(a) } : a \in addrs }

(***************************************************************************)
(* C8: after retain the surviving Leaves are exactly those whose full      *)
(* path (display names from the root joined with "::") satisfies the       *)
(* filter, in their original order; a Parent survives iff one of its       *)
(* children does; the filter is called with the paths of Leaves only.      *)
(***************************************************************************)
C8_RetainByJoinedPath ==
  last.op = "retain" =>
    /\ tree = Restrict(prev, 1, <<>>,
                       WithAncestors(SurvivingLeaves(prev, last.filter)))
    /\ Len(calls) = Cardinality(LeafAddrs(prev))
    /\ { calls[i] : i \in 1..Len(calls) }
         = { JoinedPath(prev, a) : a \in LeafAddrs(prev) }

(***************************************************************************)
(* sort_by_attr: sibling sequences that hold the same nodes, up to the     *)
(* order of siblings at every depth.                                       *)
(***************************************************************************)
RECURSIVE IsPermutationOf(_, _), SameNode(_, _)
IsPermutationOf(s, t) ==
  /\ Len(s) = Len(t)
  /\ \E f \in Permutations(1..Len(s)) :
       \A i \in 1..Len(s) : SameNode(s[i], t[f[i]])

SameNode(a, b) ==
  IF IsLeaf(a) THEN a = b
  ELSE /\ IsParent(b)
       /\ a.raw_name = b.raw_name
       /\ a.group = b.group
       /\ IsPermutationOf(a.children, b.children)

\* The first comparison of the chain that is not Equal decides.
FirstDecisive(a, b, attr) ==
  LET chain == with_tie_breakers(attr)
      c1 == cmp_one_attr(a, b, chain[1])
      c2 == cmp_one_attr(a, b, chain[2])
      c3 == cmp_one_attr(a, b, chain[3])
  IN IF c1 # Equal THEN c1 ELSE IF c2 # Equal THEN c2 ELSE c3

(***************************************************************************)
(* C9: after sort_by_attr every level holds the nodes it held before, and  *)
(* adjacent siblings are in order under cmp_by_attr (negated as a whole    *)
(* when reverse is set), where cmp_by_attr is decided by the primary       *)
(* attribute and by a tie-breaker only when all earlier ones are Equal.    *)
(***************************************************************************)
C9_SortedEveryLevel ==
  last.op = "sort_by_attr" =>
    /\ IsPermutationOf(prev, tree)
    /\ \A level \in Levels(tree) :
         /\ \A i \in 1..(Len(level) - 1) :
              IF last.reverse
              THEN cmp_by_attr(level[i], level[i + 1], last.attr) >= Equal
              ELSE cmp_by_attr(level[i], level[i + 1], last.attr) <= Equal
         /\ \A i, j \in 1..Len(level) :
              cmp_by_attr(level[i], level[j], last.attr)
                = FirstDecisive(level[i], level[j], last.attr)
    /\ with_tie_breakers(last.attr)[1] = last.attr

C9_Witness ==
  /\ last.op = "sort_by_attr"
  /\ last.reverse
  /\ [i \in 1..Len(tree) |-> Shallow(tree[i])] # [i \in 1..Len(prev) |-> Shallow(prev[i])]
  /\ \E i \in 1..Len(tree), j \in 1..Len(prev) :
       /\ IsParent(tree[i]) /\ IsParent(prev[j])
       /\ tree[i].raw_name = prev[j].raw_name
       /\ Len(tree[i].children) >= 2
       /\ tree[i].children # prev[j].children

TieFree(forest) ==
  \A level \in Levels(forest) :
    \A i, j \in 1..Len(level) :
      i # j => \/ kind(level[i]) # kind(level[j])
               \/ display_name(level[i]) # display_name(level[j])
               \/ location(level[i]) # location(level[j])

LocatableBelow(n) ==
  { d \in Addrs(n.children) :
      /\ \A k \in 1..(Len(d) - 1) :
           LET m == NodeAt(n.children, SubSeq(d, 1, k))
           IN IsParent(m) /\ m.group = None
      /\ LET m == NodeAt(n.children, d) IN IsLeaf(m) \/ m.group # None }

OwnLocation(m) ==
  IF IsLeaf(m) THEN entry_location(m.entry) ELSE group_location(m.group[1])

EarliestBelow(n) ==
  LET locs == { OwnLocation(NodeAt(n.children, d)) : d \in LocatableBelow(n) }
  IN IF locs = {} THEN None
     ELSE Some(CHOOSE l \in locs : \A o \in locs : l <= o)

C10_MinOfDescendants ==
  \A a \in ParentAddrs(tree) :
    NodeAt(tree, a).group = None
      => location(NodeAt(tree, a)) = EarliestBelow(NodeAt(tree, a))

SortedByLocation == last.op = "sort_by_attr" /\ last.attr = "Location"

====
